---- MODULE Spec2Model ----
(***************************************************************************)
(* ShKeeper (src/__init__.py): applying a mesh object's modifier stack     *)
(* while keeping its shape keys, and baking shape-key animation.           *)
(*                                                                         *)
(* The host scene graph is modelled by its contract: objects and mesh      *)
(* datablocks are records, a property assignment stores the value given,   *)
(* and every host primitive either mutates as specified or raises.         *)
(* Object and datablock identities are positive integers, None is 0.       *)
(* Names are tuples of string tokens, so that name + suffix is \o.         *)
(***************************************************************************)
EXTENDS Integers, Sequences, FiniteSets, TLC

VARIABLES
    objs,       \* bpy.data.objects: id -> [type, name, data, modifiers, select, role]
    meshes,     \* bpy.data.meshes: id -> [key_blocks, geom, animation_data, sk_name]
    active,     \* bpy.context.view_layer.objects.active
    pose,       \* armature id -> [bones, resets]
    reports,    \* self.report(...) calls, in order
    nextId,     \* next fresh identity for a copied object / datablock
    op,         \* SK_OT_apply_mods: [action, reset_pose, objects, next_selection]
    loc,        \* locals of apply_all_modifiers_with_sk: [idx, receiver, i, blendshape]
    pc,         \* position of the running handler
    result,     \* what the last handler returned
    arg,        \* argument sk_keep of a direct apply_shapekey call
    objs0,      \* objs at the moment the handler was entered
    meshes0,    \* meshes at the moment the handler was entered
    bake,       \* module globals BAKE_SHAPEKEY_ANIMATION_* and the scene's frame state
    lastInv     \* record of the last Bake Shapekey Animation invocation

sceneVars == <<objs, meshes, active, pose, reports, nextId, op, loc, arg, objs0, meshes0>>
bakeVars == <<bake, lastInv>>
vars == <<objs, meshes, active, pose, reports, nextId, op, loc, pc, result, arg,
          objs0, meshes0, bake, lastInv>>

None == 0

\* ------------------------------------------------------------------ bounds
MaxMods == 3        \* longest modifier stack of the single-object specification
MaxKeys == 3        \* most shape keys (basis included) on one mesh
MaxFrame == 2       \* frames are 0..MaxFrame

\* ------------------------------------------------------------ identities
M1 == 1
M2 == 2
A1 == 3
A2 == 4
FirstFreshId == 5
MeshIds == {M1, M2}
ArmatureIds == {A1, A2}

\* --------------------------------------------------------------- sequences
RemoveAt(s, p) == SubSeq(s, 1, p - 1) \o SubSeq(s, p + 1, Len(s))

RECURSIVE SeqsUpTo(_, _)
SeqsUpTo(S, n) ==
    IF n = 0 THEN {<<>>}
    ELSE LET shorter == SeqsUpTo(S, n - 1)
         IN shorter \cup {Append(s, x) : s \in {t \in shorter : Len(t) = n - 1}, x \in S}

\* position of the element named nm in a modifier stack, 0 when absent
PosOf(stack, nm) ==
    LET hits == {p \in 1..Len(stack) : stack[p].name = nm}
    IN IF hits = {} THEN 0 ELSE CHOOSE p \in hits : TRUE

\* --------------------------------------------------------------- modifiers
Kinds == {"GOOD", "BAD", "SUBSURF", "ARM1", "ARM2", "ARM0"}

\* one modifier of kind k at stack position p; valid = the host accepts its apply
Modifier(k, p) ==
    [name |-> <<k, ToString(p)>>,
     type |-> CASE k \in {"ARM1", "ARM2", "ARM0"} -> "ARMATURE"
                [] k = "SUBSURF" -> "SUBSURF"
                [] k = "GOOD" -> "DISPLACE"
                [] OTHER -> "BOOLEAN",
     valid |-> k # "BAD",
     object |-> CASE k = "ARM1" -> A1 [] k = "ARM2" -> A2 [] OTHER -> None,
     show_only_control_edges |-> (k = "SUBSURF")]

Stack(kinds) == [p \in 1..Len(kinds) |-> Modifier(kinds[p], p)]

\* ------------------------------------------------------------- shape keys
\* the vertex positions of a mesh: the shape key of the mesh they come from
\* (src = <<mesh, key index>>) and the modifiers baked into them since
Geometry(src, applied) == [src |-> src, applied |-> applied]

\* the original shape key at index i (0 = basis): every field differs from the
\* value the host gives a newly joined key
OrigKey(m, i) ==
    [name |-> IF i = 0 THEN <<"Basis">> ELSE <<"Key ", ToString(i)>>,
     mute |-> (i % 2 = 1),
     slider_min |-> 0 - i,
     slider_max |-> i + 1,
     value |-> i,
     interpolation |-> IF i % 2 = 1 THEN "KEY_BSPLINE" ELSE "KEY_CARDINAL",
     lock_shape |-> (i % 2 = 0),
     vertex_group |-> <<"Group ", ToString(i)>>,
     shape |-> Geometry(<<m, i>>, <<>>)]

\* the key the host's join_shapes / first shape_key_add creates
NewKey(nm, g) ==
    [name |-> nm, mute |-> FALSE, slider_min |-> 0, slider_max |-> 1, value |-> 0,
     interpolation |-> "KEY_LINEAR", lock_shape |-> FALSE, vertex_group |-> <<>>,
     shape |-> g]

OrigKeys(m, n) == [j \in 1..n |-> OrigKey(m, j - 1)]

\* animation data of a shape-key datablock; exists = FALSE is animation_data None
NoAnimationData == [exists |-> FALSE, action |-> None, drivers |-> <<>>, nla_tracks |-> <<>>]

Driver(path) ==
    [data_path |-> path, type |-> "SCRIPTED", mute |-> FALSE, expression |-> <<"var">>,
     use_self |-> FALSE,
     variables |-> <<[name |-> <<"var">>, type |-> "TRANSFORMS",
                      targets |-> <<[id |-> A1, data_path |-> <<>>,
                                     bone_target |-> <<"Bone">>,
                                     transform_space |-> "LOCAL_SPACE",
                                     transform_type |-> "ROT_X"]>>]>>]

Track(nm) ==
    [name |-> nm, is_solo |-> FALSE, mute |-> TRUE,
     strips |-> <<[name |-> <<"Strip">>, frame_start |-> 2, action |-> 7,
                   blend_in |-> 1, blend_out |-> 2, use_auto_blend |-> FALSE,
                   extrapolation |-> "HOLD"]>>]

\* --------------------------------------------------------------- the world
\* The part of the state the helpers read and write, passed as one record.
World == [objs |-> objs, meshes |-> meshes, active |-> active, reports |-> reports,
          nextId |-> nextId, exc |-> ""]

DeselectAll(os) == [o \in DOMAIN os |-> [os[o] EXCEPT !.select = FALSE]]

\* ------------------------------------------------- host: Object.shape_key_remove
\* Removes the key at 0-based index idx of mesh m.  Removing the reference key
\* (index 0) while others remain makes the next key the reference and writes
\* its shape into the mesh; removing the last key leaves the mesh as it is.
ShapeKeyRemove(ms, m, idx) ==
    LET keys == RemoveAt(ms[m].key_blocks, idx + 1)
        g == IF idx = 0 /\ Len(keys) > 0 THEN keys[1].shape ELSE ms[m].geom
    IN [ms EXCEPT ![m].key_blocks = keys, ![m].geom = g,
                  ![m].animation_data = IF Len(keys) = 0 THEN NoAnimationData ELSE @,
                  ![m].sk_name = IF Len(keys) = 0 THEN <<>> ELSE @]

\* for i in reversed(range(0, len(shapekeys))): if i != sk_keep: remove shapekeys[i]
RECURSIVE RemoveOthers(_, _, _, _)
RemoveOthers(ms, m, i, sk_keep) ==
    IF i < 0 THEN ms
    ELSE RemoveOthers(IF i # sk_keep THEN ShapeKeyRemove(ms, m, i) ELSE ms,
                      m, i - 1, sk_keep)

\* the index test of apply_shapekey: TRUE when the call returns at once
IndexRejected(sk_keep, n) == sk_keep < 0 \/ sk_keep > n

\* apply_shapekey(obj, sk_keep).  With sk_keep = len(shapekeys) the loop removes
\* every key, the key datablock is freed, and shapekeys[0] reads the freed
\* collection: exc = "DANGLING" marks that read.
apply_shapekey(W, o, sk_keep) ==
    LET m == W.objs[o].data
        n == Len(W.meshes[m].key_blocks)
    IN IF IndexRejected(sk_keep, n) THEN W
       ELSE LET ms1 == RemoveOthers(W.meshes, m, n - 1, sk_keep)
            IN IF Len(ms1[m].key_blocks) = 0
               THEN [W EXCEPT !.meshes = ms1, !.exc = "DANGLING"]
               ELSE [W EXCEPT !.meshes = ShapeKeyRemove(ms1, m, 0)]

\* ----------------------------------------------------------- apply_modifiers
\* for modifier in modifiers: if modifier.type == "SUBSURF": flag = False
ClearControlEdges(stack) ==
    [p \in 1..Len(stack) |->
        IF stack[p].type = "SUBSURF"
        THEN [stack[p] EXCEPT !.show_only_control_edges = FALSE] ELSE stack[p]]

\* The loop "for mod in modifiers" over the host collection.  The host iterator
\* returns the current element after it has already advanced to the element
\* that follows it, so cur is the element returned now and the successor is
\* read from the stack before the body runs.  st = [mods, geom, reports].
SkipsNothing(mod) == FALSE
SkipsType(mod) == mod.type = "ARMATURE"

ModifierStep(st, mod, oname) ==
    LET p == PosOf(st.mods, mod.name)
    IN IF SkipsType(mod) THEN st
       ELSE IF mod.valid
            \* bpy.ops.object.modifier_apply: bakes the modifier, drops it
            THEN [st EXCEPT !.mods = RemoveAt(@, p),
                            !.geom.applied = Append(@, mod)]
            \* except: report, then bpy.ops.object.modifier_remove
            ELSE [st EXCEPT !.mods = RemoveAt(@, p),
                            !.reports = Append(@, <<"INFO", "Removed invalid modifier",
                                                    mod.name, mod.type, oname>>)]

RECURSIVE IterateByIndex(_, _, _)
IterateByIndex(st, idx, oname) ==
    IF idx > Len(st.mods) THEN st
    ELSE IterateByIndex(ModifierStep(st, st.mods[idx], oname), idx + 1, oname)

RECURSIVE IterateFrom(_, _, _)
IterateFrom(st, cur, oname) ==
    IF cur = <<>> THEN st
    ELSE LET p == PosOf(st.mods, cur)
             nxt == IF p < Len(st.mods) THEN st.mods[p + 1].name ELSE <<>>
         IN IterateFrom(ModifierStep(st, st.mods[p], oname), nxt, oname)

IterateStartByIndex(st, oname) == IterateByIndex(st, 1, oname)
IterateModifiers(st, oname) ==
    IterateFrom(st, IF Len(st.mods) = 0 THEN <<>> ELSE st.mods[1].name, oname)

apply_modifiers(W, o) ==
    LET m == W.objs[o].data
        st0 == [mods |-> ClearControlEdges(W.objs[o].modifiers),
                geom |-> W.meshes[m].geom, reports |-> W.reports]
        st == IterateModifiers(st0, W.objs[o].name)
        sel == [DeselectAll(W.objs) EXCEPT ![o].select = TRUE]
    IN [W EXCEPT !.objs = [sel EXCEPT ![o].modifiers = st.mods],
                 !.meshes = [@ EXCEPT ![m].geom = st.geom],
                 !.active = o,
                 !.reports = st.reports]

\* ---------------------------------------------------------------- copy_object
\* copy_object(obj, times=1, offset=0)[0]: the copy and its own copy of the data
copy_object(W, o, role) ==
    LET n == W.nextId
    IN [W EXCEPT !.objs = [x \in DOMAIN W.objs \cup {n} |->
                              IF x = n
                              THEN [W.objs[o] EXCEPT !.name = @ \o <<"_shapekey_", "1">>,
                                                     !.data = n, !.select = FALSE,
                                                     !.role = role]
                              ELSE W.objs[x]],
                 !.meshes = [x \in DOMAIN W.meshes \cup {n} |->
                              IF x = n THEN W.meshes[W.objs[o].data] ELSE W.meshes[x]],
                 !.nextId = n + 1]

\* --------------------------------------------------------- add_objs_shapekeys
\* host: bpy.ops.object.join_shapes on the active mesh: a basis key first when
\* the mesh has none, then one key per other selected mesh, named after it
RECURSIVE JoinKeys(_, _, _)
JoinKeys(W, keys, srcs) ==
    IF srcs = <<>> THEN keys
    ELSE JoinKeys(W, Append(keys, NewKey(W.objs[Head(srcs)].name,
                                         W.meshes[W.objs[Head(srcs)].data].geom)),
                  Tail(srcs))

add_objs_shapekeys(W, destination, sources) ==
    LET dm == W.objs[destination].data
        srcset == {sources[j] : j \in 1..Len(sources)}
        sel == [o \in DOMAIN W.objs |-> [W.objs[o] EXCEPT !.select = (o \in srcset)]]
        had == Len(W.meshes[dm].key_blocks) > 0
        base == IF had THEN W.meshes[dm].key_blocks
                ELSE <<NewKey(<<"Basis">>, W.meshes[dm].geom)>>
    IN [W EXCEPT !.objs = sel,
                 !.active = destination,
                 !.meshes = [@ EXCEPT ![dm].key_blocks = JoinKeys(W, base, sources),
                                      ![dm].sk_name = IF had THEN @ ELSE <<"Key">>]]

\* receiver.data.shape_keys.key_blocks[i]: the position written for donor i
KeyIndexBefore(i) == i
KeyIndex(i) == i + 1

\* sk.name = obj_sk.name ... sk.vertex_group = obj_sk.vertex_group
RestoreKey(W, receiver, i, obj_sk) ==
    LET rm == W.objs[receiver].data
    IN [W EXCEPT !.meshes[rm].key_blocks[KeyIndex(i)] =
            [@ EXCEPT !.name = obj_sk.name, !.mute = obj_sk.mute,
                      !.slider_min = obj_sk.slider_min,
                      !.slider_max = obj_sk.slider_max,
                      !.value = obj_sk.value,
                      !.interpolation = obj_sk.interpolation,
                      !.lock_shape = obj_sk.lock_shape,
                      !.vertex_group = obj_sk.vertex_group]]

\* bpy.data.objects.remove / bpy.data.meshes.remove
RemoveObject(W, o) ==
    [W EXCEPT !.objs = [x \in DOMAIN W.objs \ {o} |-> W.objs[x]],
              !.active = IF W.active = o THEN None ELSE @]
RemoveMesh(W, m) == [W EXCEPT !.meshes = [x \in DOMAIN W.meshes \ {m} |-> W.meshes[x]]]

\* ------------------------------------------------------ reset_armature_pose
NeutralBone ==
    [location |-> <<0, 0, 0>>, rotation_quaternion |-> <<1, 0, 0, 0>>,
     rotation_euler |-> <<1, 1, 1>>]
PosedBone ==
    [location |-> <<2, 0, 0>>, rotation_quaternion |-> <<0, 1, 0, 0>>,
     rotation_euler |-> <<0, 2, 0>>]

\* reset_pose(obj): every bone to the neutral transform; resets counts the calls
reset_pose(ps, a) == [ps EXCEPT ![a].bones = NeutralBone, ![a].resets = @ + 1]

\* what processed_armature holds and what is looked up in it
ObjectRef(id) == [object |-> id]
ModifierRef(o, mod) == [owner |-> o, modifier |-> mod.name]

\* next((m for m in obj.modifiers if m.type == "ARMATURE" and m.object), None)
FirstArmature(stack) ==
    LET hits == {p \in 1..Len(stack) :
                    stack[p].type = "ARMATURE" /\ stack[p].object # None}
    IN IF hits = {} THEN 0 ELSE CHOOSE p \in hits : \A q \in hits : p <= q

RECURSIVE ResetLoop(_, _, _, _)
ResetLoop(os, ps, objects, processed_armature) ==
    IF objects = <<>> THEN ps
    ELSE LET obj == Head(objects)
             p == FirstArmature(os[obj].modifiers)
         IN IF p # 0 /\ ObjectRef(os[obj].modifiers[p].object) \notin processed_armature
            THEN ResetLoop(os, reset_pose(ps, os[obj].modifiers[p].object), Tail(objects),
                           processed_armature
                               \cup {ModifierRef(obj, os[obj].modifiers[p])})
            ELSE ResetLoop(os, ps, Tail(objects), processed_armature)

reset_armature_pose(os, ps, objects) == ResetLoop(os, ps, objects, {})

\* ------------------------------------------------------------ SK_OT_apply_mods
RECURSIVE SortedSeq(_)
SortedSeq(S) ==
    IF S = {} THEN <<>>
    ELSE LET lo == CHOOSE x \in S : \A y \in S : x <= y
         IN <<lo>> \o SortedSeq(S \ {lo})

\* [obj for obj in context.selected_objects if obj.type == "MESH"]
SelectedMeshes(os) == SortedSeq({o \in DOMAIN os : os[o].select /\ os[o].type = "MESH"})

\* validate_input
AcceptsAnything(objects) == TRUE
validate_input(objects) == Len(objects) # 0

HasShapeKeys(W, o) == Len(W.meshes[W.objs[o].data].key_blocks) > 0

Commit(W) ==
    /\ objs' = W.objs
    /\ meshes' = W.meshes
    /\ active' = W.active
    /\ reports' = W.reports
    /\ nextId' = W.nextId

\* execute, up to the dispatch on self.action
Execute ==
    /\ pc = "idle"
    /\ LET objects == SelectedMeshes(objs)
       IN /\ op' = [op EXCEPT !.objects = objects]
          /\ IF ~validate_input(objects)
             THEN /\ reports' = Append(reports, <<"ERROR", "No Active object">>)
                  /\ result' = "CANCELLED"
                  /\ pc' = "done"
                  /\ UNCHANGED pose
             ELSE /\ pose' = IF op.reset_pose
                             THEN reset_armature_pose(objs, pose, objects) ELSE pose
                  /\ pc' = IF op.action = "ALL_MODIFIERS" THEN "plain" ELSE "sk_loop"
                  /\ UNCHANGED <<reports, result>>
    /\ UNCHANGED <<objs, meshes, active, nextId, loc, arg, objs0, meshes0, bakeVars>>

\* apply_all_modifiers: the loop over self.objects
RECURSIVE PlainLoop(_, _)
PlainLoop(W, objects) ==
    IF objects = <<>> THEN W
    ELSE PlainLoop(IF HasShapeKeys(W, Head(objects)) THEN W
                   ELSE apply_modifiers(W, Head(objects)),
                   Tail(objects))

ApplyAllModifiers ==
    /\ pc = "plain"
    /\ LET next_selection == SelectSeq(op.objects, LAMBDA o : HasShapeKeys(World, o))
           W == PlainLoop(World, op.objects)
           keep == {next_selection[j] : j \in 1..Len(next_selection)}
       IN /\ Commit([W EXCEPT !.objs = [o \in DOMAIN W.objs |->
                                           [W.objs[o] EXCEPT !.select = (o \in keep)]]])
          /\ op' = [op EXCEPT !.next_selection = next_selection]
    /\ result' = "FINISHED"
    /\ pc' = "done"
    /\ UNCHANGED <<pose, loc, arg, objs0, meshes0, bakeVars>>

\* ---------------------------------------------- apply_all_modifiers_with_sk
CurObj == op.objects[loc.idx]
OrigMesh == objs[CurObj].data

\* loop head: the next object; a mesh without shape keys is baked in place,
\* otherwise the receiver is created, collapsed to the basis and baked
SkNextObject ==
    /\ pc = "sk_loop"
    /\ IF loc.idx > Len(op.objects)
       THEN /\ result' = "FINISHED"
            /\ pc' = "done"
            /\ UNCHANGED <<objs, meshes, active, reports, nextId, loc>>
       ELSE IF ~HasShapeKeys(World, CurObj)
       THEN /\ Commit(apply_modifiers(World, CurObj))
            /\ loc' = [loc EXCEPT !.idx = @ + 1]
            /\ UNCHANGED <<pc, result>>
       ELSE LET W1 == copy_object(World, CurObj, "receiver")
                receiver == World.nextId
                W2 == [W1 EXCEPT !.objs[receiver].name = <<"sk_receiver">>]
                W3 == apply_modifiers(apply_shapekey(W2, receiver, 0), receiver)
            IN /\ Commit(W3)
               /\ loc' = [loc EXCEPT !.receiver = receiver, !.i = 1]
               /\ pc' = "donor_loop"
               /\ UNCHANGED result
    /\ UNCHANGED <<pose, op, arg, objs0, meshes0, bakeVars>>

\* for i in range(1, len(key_blocks)): the donor is copied, isolated and baked
DonorCreate ==
    /\ pc = "donor_loop"
    /\ IF loc.i >= Len(meshes[OrigMesh].key_blocks)
       THEN /\ pc' = "anim"
            /\ UNCHANGED <<objs, meshes, active, reports, nextId, loc>>
       ELSE LET W1 == copy_object(World, CurObj, "donor")
                blendshape == World.nextId
                W2 == apply_modifiers(apply_shapekey(W1, blendshape, loc.i), blendshape)
            IN /\ Commit(W2)
               /\ loc' = [loc EXCEPT !.blendshape = blendshape]
               /\ pc' = "join"
    /\ UNCHANGED <<pose, op, result, arg, objs0, meshes0, bakeVars>>

\* add_objs_shapekeys(receiver, [blendshape]) and the metadata of key i
DonorJoin ==
    /\ pc = "join"
    /\ LET obj_sk == meshes[OrigMesh].key_blocks[loc.i + 1]
           W1 == add_objs_shapekeys(World, loc.receiver, <<loc.blendshape>>)
       IN Commit(RestoreKey(W1, loc.receiver, loc.i, obj_sk))
    /\ pc' = "rm_donor_object"
    /\ UNCHANGED <<pose, op, loc, result, arg, objs0, meshes0, bakeVars>>

\* bpy.data.objects.remove(blendshape)
DonorRemoveObject ==
    /\ pc = "rm_donor_object"
    /\ Commit(RemoveObject(World, loc.blendshape))
    /\ pc' = "rm_donor_mesh"
    /\ UNCHANGED <<pose, op, loc, result, arg, objs0, meshes0, bakeVars>>

\* bpy.data.meshes.remove(mesh_data); the donor's data has the donor's identity
LeaksMesh(W, m) == W
ReleaseDonorMesh(W, m) == RemoveMesh(W, m)

DonorRemoveMesh ==
    /\ pc = "rm_donor_mesh"
    /\ Commit(ReleaseDonorMesh(World, loc.blendshape))
    /\ loc' = [loc EXCEPT !.i = @ + 1, !.blendshape = None]
    /\ pc' = "donor_loop"
    /\ UNCHANGED <<pose, op, result, arg, objs0, meshes0, bakeVars>>

\* lines 252-306: animation data of the original key datablock onto the
\* receiver's.  receiver.data.shape_keys is None when nothing was joined, and
\* .key_blocks on it raises AttributeError out of execute.
CopyAnimation(src, id) ==
    [exists |-> TRUE,
     action |-> IF src.action # None THEN id ELSE None,
     drivers |-> src.drivers,
     nla_tracks |-> src.nla_tracks]

AnimTransfer ==
    /\ pc = "anim"
    /\ LET rm == objs[loc.receiver].data
       IN IF Len(meshes[rm].key_blocks) = 0
          THEN /\ result' = "EXCEPTION"
               /\ pc' = "done"
               /\ UNCHANGED <<meshes, nextId>>
          ELSE /\ meshes' = [meshes EXCEPT
                    ![OrigMesh].animation_data.exists = TRUE,
                    ![rm].animation_data =
                        CopyAnimation(meshes[OrigMesh].animation_data, nextId)]
               /\ nextId' = IF meshes[OrigMesh].animation_data.action # None
                            THEN nextId + 1 ELSE nextId
               /\ pc' = "del_object"
               /\ UNCHANGED result
    /\ UNCHANGED <<objs, active, pose, reports, op, loc, arg, objs0, meshes0, bakeVars>>

\* bpy.data.objects.remove(obj); loc.orig keeps orig_name and orig_data
DeleteOriginalObject ==
    /\ pc = "del_object"
    /\ loc' = [loc EXCEPT !.orig_name = objs[CurObj].name, !.orig_data = OrigMesh]
    /\ Commit(RemoveObject(World, CurObj))
    /\ pc' = "del_mesh"
    /\ UNCHANGED <<pose, op, result, arg, objs0, meshes0, bakeVars>>

\* bpy.data.meshes.remove(orig_data); skid.name = skid_name; receiver.name = orig_name
DeleteOriginalMesh ==
    /\ pc = "del_mesh"
    /\ LET W1 == RemoveMesh(World, loc.orig_data)
           rm == W1.objs[loc.receiver].data
       IN Commit([W1 EXCEPT !.meshes[rm].sk_name = loc.orig_name \o <<".SK">>,
                            !.objs[loc.receiver].name = loc.orig_name])
    /\ loc' = [loc EXCEPT !.idx = @ + 1, !.receiver = None, !.i = 0,
                          !.orig_name = <<>>, !.orig_data = None]
    /\ pc' = "sk_loop"
    /\ UNCHANGED <<pose, op, result, arg, objs0, meshes0, bakeVars>>

\* ------------------------------------------------------------------ scenes
MeshObject(id, kinds, sel) ==
    [type |-> "MESH", name |-> <<"Mesh", ToString(id)>>, data |-> id,
     modifiers |-> Stack(kinds), select |-> sel, role |-> "original"]

ArmatureObject(id, sel) ==
    [type |-> "ARMATURE", name |-> <<"Armature", ToString(id)>>, data |-> None,
     modifiers |-> <<>>, select |-> sel, role |-> "original"]

MeshData(id, n) ==
    [key_blocks |-> OrigKeys(id, n),
     geom |-> Geometry(<<id, 0>>, <<>>),
     animation_data |-> IF n > 0 /\ id = M1
                        THEN [exists |-> TRUE, action |-> 1,
                              drivers |-> <<Driver(<<"key_blocks", "value">>)>>,
                              nla_tracks |-> <<Track(<<"NlaTrack">>)>>]
                        ELSE NoAnimationData,
     sk_name |-> IF n > 0 THEN <<"Key">> ELSE <<>>]

Scene(k1, k2, n1, n2, S) ==
    /\ objs = [o \in MeshIds \cup ArmatureIds |->
                 IF o = M1 THEN MeshObject(M1, k1, M1 \in S)
                 ELSE IF o = M2 THEN MeshObject(M2, k2, M2 \in S)
                 ELSE ArmatureObject(o, o \in S)]
    /\ meshes = [m \in MeshIds |-> MeshData(m, IF m = M1 THEN n1 ELSE n2)]
    /\ active = None
    /\ pose = [a \in ArmatureIds |-> [bones |-> PosedBone, resets |-> 0]]
    /\ reports = <<>>
    /\ nextId = FirstFreshId
    /\ loc = [idx |-> 1, receiver |-> None, i |-> 0, blendshape |-> None,
              orig_name |-> <<>>, orig_data |-> None]
    /\ result = "NONE"
    /\ objs0 = objs
    /\ meshes0 = meshes

\* ------------------------------------------- SK_OT_bake_shapekey_animation
NoFrame == -1       \* a frame global that is still None
Frames == 0..MaxFrame

NoInv == [result |-> "NONE", gate |-> FALSE, opted |-> FALSE, previous |-> "NONE",
          advanced |-> FALSE, reports |-> <<>>,
          keyed |-> {}, start |-> NoFrame, end |-> NoFrame,
          frame_start |-> 0, frame_end |-> 0, before |-> <<>>, after |-> <<>>]

BakeIdle ==
    /\ bake = [FRAME_START |-> NoFrame, FRAME_END |-> NoFrame, EXECUTE |-> FALSE,
               frame_start |-> 0, frame_end |-> MaxFrame, frame_current |-> 0,
               selection |-> "none", keyframes |-> {}, opted |-> FALSE,
               previous |-> "NONE"]
    /\ lastInv = NoInv

Max(a, b) == IF a >= b THEN a ELSE b
Min(a, b) == IF a <= b THEN a ELSE b

\* max(scene.frame_start, min(value, scene.frame_end))
ClampFrame(value) == Max(bake.frame_start, Min(value, bake.frame_end))

set_start_frame(value) ==
    /\ pc = "bake"
    /\ bake' = [bake EXCEPT !.FRAME_START = ClampFrame(value)]
    /\ lastInv' = NoInv
    /\ UNCHANGED <<sceneVars, pc, result>>

set_end_frame(value) ==
    /\ pc = "bake"
    /\ bake' = [bake EXCEPT !.FRAME_END = ClampFrame(value)]
    /\ lastInv' = NoInv
    /\ UNCHANGED <<sceneVars, pc, result>>

get_start_frame ==
    /\ pc = "bake"
    /\ bake' = IF bake.FRAME_START = NoFrame
               THEN [bake EXCEPT !.FRAME_START = ClampFrame(0)] ELSE bake
    /\ lastInv' = NoInv
    /\ UNCHANGED <<sceneVars, pc, result>>

get_end_frame ==
    /\ pc = "bake"
    /\ bake' = IF bake.FRAME_END = NoFrame
               THEN [bake EXCEPT !.FRAME_END = ClampFrame(0)] ELSE bake
    /\ lastInv' = NoInv
    /\ UNCHANGED <<sceneVars, pc, result>>

\* set_execute; opted remembers that the caller set the gate to true since the
\* last invocation ended, previous how that invocation ended
set_execute(value) ==
    /\ pc = "bake"
    /\ bake' = [bake EXCEPT !.EXECUTE = value, !.opted = value]
    /\ lastInv' = NoInv
    /\ UNCHANGED <<sceneVars, pc, result>>

\* the host: the user changes the scene's frame range
SceneFrameRange(fs, fe) ==
    /\ pc = "bake"
    /\ fs <= fe
    /\ <<fs, fe>> # <<bake.frame_start, bake.frame_end>>
    /\ bake' = [bake EXCEPT !.frame_start = fs, !.frame_end = fe]
    /\ lastInv' = NoInv
    /\ UNCHANGED <<sceneVars, pc, result>>

\* the host: the user changes the selection; "none" holds no mesh with shape
\* keys, "drivers" a mesh whose key datablock has drivers, "no_animation_data"
\* a mesh whose key datablock has animation_data None
SelectForBake(s) ==
    /\ pc = "bake"
    /\ s # bake.selection
    /\ bake' = [bake EXCEPT !.selection = s]
    /\ lastInv' = NoInv
    /\ UNCHANGED <<sceneVars, pc, result>>

Observable(b) == <<b.FRAME_START, b.FRAME_END, b.EXECUTE, b.frame_start, b.frame_end,
                   b.frame_current, b.selection, b.keyframes>>

\* what execute leaves behind; out = [result, bake (the new globals and scene),
\* advanced, keyed, reports]
BakeOutcome ==
    IF ~bake.EXECUTE
    THEN [result |-> "FINISHED", bake |-> bake, advanced |-> FALSE, keyed |-> {},
          reports |-> <<>>]
    ELSE IF bake.selection = "none"
    THEN [result |-> "CANCELLED", bake |-> bake, advanced |-> FALSE, keyed |-> {},
          reports |-> <<"INFO", "ERROR">>]
    ELSE IF bake.FRAME_START = NoFrame \/ bake.FRAME_END = NoFrame
    \* range(None, ...) / None + 1: TypeError
    THEN [result |-> "EXCEPTION", bake |-> bake, advanced |-> FALSE, keyed |-> {},
          reports |-> <<"INFO">>]
    ELSE IF bake.FRAME_START > bake.FRAME_END
    THEN [result |-> "FINISHED", bake |-> [bake EXCEPT !.EXECUTE = FALSE],
          advanced |-> FALSE, keyed |-> {}, reports |-> <<"INFO">>]
    ELSE IF bake.selection = "no_animation_data"
    \* frame_set(first frame), then .animation_data.drivers: AttributeError
    THEN [result |-> "EXCEPTION",
          bake |-> [bake EXCEPT !.frame_current = bake.FRAME_START],
          advanced |-> TRUE, keyed |-> {}, reports |-> <<"INFO">>]
    ELSE [result |-> "FINISHED",
          bake |-> [bake EXCEPT !.frame_current = bake.FRAME_END,
                                !.keyframes = @ \cup (bake.FRAME_START..bake.FRAME_END),
                                !.EXECUTE = FALSE],
          advanced |-> TRUE, keyed |-> bake.FRAME_START..bake.FRAME_END,
          reports |-> <<"INFO">>]

BakeExecute ==
    /\ pc = "bake"
    /\ LET out == BakeOutcome
       IN /\ bake' = [out.bake EXCEPT !.opted = FALSE, !.previous = out.result]
          /\ lastInv' = [result |-> out.result, gate |-> bake.EXECUTE,
                         opted |-> bake.opted, previous |-> bake.previous,
                         advanced |-> out.advanced,
                         keyed |-> out.keyed, reports |-> out.reports,
                         start |-> bake.FRAME_START, end |-> bake.FRAME_END,
                         frame_start |-> bake.frame_start, frame_end |-> bake.frame_end,
                         before |-> Observable(bake), after |-> Observable(out.bake)]
    /\ UNCHANGED <<sceneVars, pc, result>>

\* ------------------------------------------- direct calls of the two helpers
\* apply_shapekey(obj, sk_keep) on the first mesh.  The read of the freed key
\* collection (exc = "DANGLING") either raises or ends the host process.
CallApplyShapekey ==
    /\ pc = "fn"
    /\ HasShapeKeys(World, M1)
    /\ LET W == apply_shapekey(World, M1, arg)
       IN /\ Commit(W)
          /\ IF W.exc = "DANGLING"
             THEN /\ pc' \in {"raised", "crashed"}
                  /\ result' = "EXCEPTION"
             ELSE /\ pc' = "fn_mods"
                  /\ result' = "RETURNED"
    /\ UNCHANGED <<pose, op, loc, arg, objs0, meshes0, bakeVars>>

\* apply_modifiers(self, obj) on the first mesh, as its callers call it: on a
\* mesh that has no shape keys
CallApplyModifiers ==
    /\ pc \in {"fn", "fn_mods"}
    /\ ~HasShapeKeys(World, M1)
    /\ Commit(apply_modifiers(World, M1))
    /\ pc' = "done"
    /\ result' = "RETURNED"
    /\ UNCHANGED <<pose, op, loc, arg, objs0, meshes0, bakeVars>>

\* --------------------------------------------------------- specifications
Actions == {"ALL_MODIFIERS", "ALL_MODIFIERS_WITH_SHAPEKEYS"}

NoOperator == [action |-> "ALL_MODIFIERS", reset_pose |-> TRUE,
               objects |-> <<>>, next_selection |-> <<>>]

\* the modifier stacks of the meshes of a batch
SceneStacks ==
    {<<>>, <<"GOOD">>, <<"BAD", "SUBSURF">>, <<"ARM1", "GOOD">>, <<"ARM0", "ARM2">>,
     <<"ARM1", "ARM2">>, <<"GOOD", "ARM2", "BAD">>}

\* Apply Modifiers on a batch of two meshes and two armatures
Init ==
    /\ pc = "idle"
    /\ \E k1 \in SceneStacks, k2 \in SceneStacks, n1 \in 0..MaxKeys, n2 \in 0..MaxKeys,
          S \in SUBSET (MeshIds \cup {A1}) :
            Scene(k1, k2, n1, n2, S)
    /\ \E a \in Actions, r \in BOOLEAN :
            op = [action |-> a, reset_pose |-> r, objects |-> <<>>,
                  next_selection |-> <<>>]
    /\ arg = 0
    /\ BakeIdle

Next ==
    \/ Execute
    \/ ApplyAllModifiers
    \/ SkNextObject
    \/ DonorCreate
    \/ DonorJoin
    \/ DonorRemoveObject
    \/ DonorRemoveMesh
    \/ AnimTransfer
    \/ DeleteOriginalObject
    \/ DeleteOriginalMesh

Spec == Init /\ [][Next]_vars

\* apply_shapekey and apply_modifiers on one mesh, any stack, any index
InitFn ==
    /\ pc = "fn"
    /\ \E k \in SeqsUpTo(Kinds, MaxMods), n \in 0..MaxKeys :
            Scene(k, <<"GOOD">>, n, 0, {M2, A1})
    /\ arg \in IF HasShapeKeys(World, M1) THEN (0 - 1)..(MaxKeys + 1) ELSE {0}
    /\ op = NoOperator
    /\ BakeIdle

NextFn ==
    \/ CallApplyShapekey
    \/ CallApplyModifiers

SpecFn == InitFn /\ [][NextFn]_vars

\* Bake Shapekey Animation, its properties and the scene around it
InitBake ==
    /\ pc = "bake"
    /\ Scene(<<>>, <<>>, 0, 0, {})
    /\ arg = 0
    /\ op = NoOperator
    /\ BakeIdle

NextBake ==
    \/ \E v \in Frames : set_start_frame(v)
    \/ \E v \in Frames : set_end_frame(v)
    \/ get_start_frame
    \/ get_end_frame
    \/ \E v \in BOOLEAN : set_execute(v)
    \/ \E fs \in Frames, fe \in Frames : SceneFrameRange(fs, fe)
    \/ \E s \in {"none", "drivers", "no_animation_data"} : SelectForBake(s)
    \/ BakeExecute

SpecBake == InitBake /\ [][NextBake]_vars

\* ------------------------------------------------------------- properties
Names(stack) == [p \in 1..Len(stack) |-> stack[p].name]
IsArmature(mod) == mod.type = "ARMATURE"
IsValid(mod) == mod.valid
IsInvalid(mod) == ~mod.valid
Stack0 == objs0[M1].modifiers
Applied(m) == meshes[m].geom.applied
RemovedNames == [p \in 1..Len(reports) |-> reports[p][3]]
HasNoArmature(stack) == \A p \in 1..Len(stack) : ~IsArmature(stack[p])

\* C1: on a stack without Armature-type modifiers, apply_modifiers applies every
\* modifier the host accepts, in stack order, removes unapplied exactly those
\* whose apply fails, and leaves the stack empty.
C1_AppliesAllInOrder ==
    (pc = "done" /\ HasNoArmature(Stack0)) =>
        /\ objs[M1].modifiers = <<>>
        /\ Names(Applied(M1)) = Names(SelectSeq(Stack0, IsValid))
        /\ RemovedNames = Names(SelectSeq(Stack0, IsInvalid))

\* C1 witness: three modifiers, the invalid one in the middle; the call has
\* returned with the other two applied
C1_Witness ==
    /\ pc = "done"
    /\ Len(Stack0) = 3
    /\ HasNoArmature(Stack0)
    /\ ~Stack0[2].valid /\ Stack0[1].valid /\ Stack0[3].valid
    /\ Len(Applied(M1)) = 2
    /\ Len(reports) = 1

\* C6: apply_modifiers neither applies nor removes an Armature-type modifier:
\* the Armature-type modifiers of the stack are the same, in the same order,
\* after the call, whatever the other modifiers did.
C6_ArmatureUntouched ==
    pc = "done" =>
        /\ SelectSeq(objs[M1].modifiers, IsArmature) = SelectSeq(Stack0, IsArmature)
        /\ \A p \in 1..Len(Applied(M1)) : ~IsArmature(Applied(M1)[p])
        /\ \A p \in 1..Len(reports) : reports[p][4] # "ARMATURE"

\* C6 witness: a stack with an armature modifier between a failing and an
\* accepted modifier; only the armature modifier is left
C6_Witness ==
    /\ pc = "done"
    /\ Len(Stack0) = 3
    /\ ~Stack0[1].valid /\ IsArmature(Stack0[2]) /\ Stack0[3].type = "SUBSURF"
    /\ Len(objs[M1].modifiers) = 1
    /\ Len(Applied(M1)) = 1

\* C9: apply_shapekey with an index outside 0 <= k < L returns without error
\* and leaves the shape keys and the geometry as they were; with a valid index
\* the object ends with no shape key.
C9_OutOfRangeIsNoOp ==
    LET L == Len(meshes0[M1].key_blocks)
    IN (pc \in {"fn_mods", "raised", "crashed"}) =>
          IF arg < 0 \/ arg >= L
          THEN pc = "fn_mods" /\ result = "RETURNED" /\ meshes = meshes0
          ELSE Len(meshes[M1].key_blocks) = 0

\* --- Apply Modifiers on a batch
WithShapeKeys == op.action = "ALL_MODIFIERS_WITH_SHAPEKEYS"
Batch == {op.objects[j] : j \in 1..Len(op.objects)}
KeyCount0(m) == Len(meshes0[m].key_blocks)
Receivers == {o \in DOMAIN objs : objs[o].role = "receiver"}
DonorObjects == {o \in DOMAIN objs : objs[o].role = "donor"}
\* the datablocks made for donors: neither an original's nor a receiver's
DonorMeshes == {m \in DOMAIN meshes : m \notin DOMAIN meshes0 /\ m \notin Receivers}
\* the original mesh a copy was made from
SourceOf(m) == meshes[m].geom.src[1]
ReceiverKeys(r) == meshes[objs[r].data].key_blocks
Metadata(k) == <<k.name, k.mute, k.slider_min, k.slider_max, k.value, k.interpolation,
                 k.lock_shape, k.vertex_group>>

\* C2: when Apply Modifiers with ALL_MODIFIERS_WITH_SHAPEKEYS has ended, every
\* selected mesh with N >= 1 shape keys is replaced by a receiver with exactly N
\* shape keys, and no donor object or donor datablock is left.
C2_ReceiverKeepsAllKeys ==
    (pc = "done" /\ WithShapeKeys) =>
        /\ \A m \in Batch : KeyCount0(m) >= 1 =>
              \E r \in Receivers : /\ objs[r].name = objs0[m].name
                                   /\ Len(ReceiverKeys(r)) = KeyCount0(m)
        /\ DonorObjects = {}
        /\ DonorMeshes = {}

\* C3: every non-basis key on a receiver carries, at its index, the metadata of
\* the original key at that index; and when the operator finishes, the receiver
\* that took a mesh's name has a key for each of the mesh's non-basis keys.
C3_MetadataRoundTrip ==
    /\ \A r \in Receivers : \A i \in 1..(Len(ReceiverKeys(r)) - 1) :
          Metadata(ReceiverKeys(r)[i + 1])
              = Metadata(meshes0[SourceOf(objs[r].data)].key_blocks[i + 1])
    /\ (pc = "done" /\ result = "FINISHED" /\ WithShapeKeys) =>
          \A m \in Batch : KeyCount0(m) >= 2 =>
              \E r \in Receivers : /\ objs[r].name = objs0[m].name
                                   /\ SourceOf(objs[r].data) = m
                                   /\ Len(ReceiverKeys(r)) = KeyCount0(m)

\* C3 witness: the operator finished on a mesh with three shape keys, whose
\* receiver holds three keys
C3_Witness ==
    /\ pc = "done" /\ result = "FINISHED" /\ WithShapeKeys
    /\ \E m \in Batch : /\ KeyCount0(m) = 3
                        /\ \E r \in Receivers : /\ objs[r].name = objs0[m].name
                                                /\ Len(ReceiverKeys(r)) = 3

\* C4: with reset_pose, every armature that is the non-null target of an
\* Armature-type modifier on a selected mesh is reset exactly once in the batch.
Targets(m) == {objs0[m].modifiers[p].object : p \in
                  {q \in 1..Len(objs0[m].modifiers) :
                      /\ IsArmature(objs0[m].modifiers[q])
                      /\ objs0[m].modifiers[q].object # None}}
C4_ResetExactlyOnce ==
    (pc # "idle" /\ op.reset_pose /\ Batch # {}) =>
        \A a \in ArmatureIds :
            (\E m \in Batch : a \in Targets(m)) => pose[a].resets = 1

\* C5: with no mesh in the selection Apply Modifiers returns CANCELLED and the
\* scene is as it was: objects, datablocks, modifiers, selection, poses.
C5_CancelledWithoutMutation ==
    (pc # "idle" /\ SelectedMeshes(objs0) = <<>>) =>
        /\ pc = "done"
        /\ result = "CANCELLED"
        /\ objs = objs0
        /\ meshes = meshes0
        /\ active = None
        /\ nextId = FirstFreshId
        /\ \A a \in ArmatureIds : pose[a] = [bones |-> PosedBone, resets |-> 0]

\* C5 witness: only an armature is selected, the shape-key action with pose
\* reset was asked for, and the operator has returned CANCELLED
C5_Witness ==
    /\ pc = "done" /\ result = "CANCELLED"
    /\ objs0[A1].select
    /\ WithShapeKeys /\ op.reset_pose
    /\ \E m \in MeshIds : KeyCount0(m) > 0 /\ Len(objs0[m].modifiers) > 0

\* C10: at most one donor object and one donor datablock exist at any point;
\* a donor is gone before the next is made, and an original is removed only
\* once every donor of it is merged into its receiver and removed.
C10_OneDonorAtATime ==
    /\ Cardinality(DonorObjects) <= 1
    /\ Cardinality(DonorMeshes) <= 1
    /\ pc \in {"donor_loop", "anim", "del_object", "del_mesh", "sk_loop"} =>
          DonorObjects = {} /\ DonorMeshes = {}
    /\ pc \in {"rm_donor_object", "rm_donor_mesh"} =>
          Len(ReceiverKeys(loc.receiver)) = loc.i + 1
    /\ \A m \in MeshIds : (m \notin DOMAIN objs \/ m \notin DOMAIN meshes) =>
          /\ \A d \in DonorMeshes : SourceOf(d) # m
          /\ \E r \in Receivers : /\ SourceOf(objs[r].data) = m
                                  /\ Len(ReceiverKeys(r)) = KeyCount0(m)

\* C10 witness: the second donor of a mesh exists while the first is gone and
\* its key is on the receiver
C10_Witness ==
    /\ pc = "join" /\ loc.i = 2
    /\ Cardinality(DonorObjects) = 1 /\ Cardinality(DonorMeshes) = 1
    /\ Len(ReceiverKeys(loc.receiver)) = 2

\* --- Bake Shapekey Animation
DidWork == lastInv.advanced \/ lastInv.keyed # {}

\* C7: an invocation with the gate false changes nothing and reports FINISHED,
\* and an invocation that advances the frame or inserts keyframes was opted
\* into after the previous invocation returned, FINISHED or CANCELLED.
C7_OptInPerInvocation ==
    lastInv.result # "NONE" =>
        /\ ~lastInv.gate => (lastInv.result = "FINISHED" /\ lastInv.before = lastInv.after)
        /\ (DidWork /\ lastInv.previous \in {"NONE", "FINISHED", "CANCELLED"}) =>
              lastInv.opted

\* C8: the start and end frames of an invocation that does work lie in the
\* scene's frame range as it is at that invocation.
C8_FramesInSceneRange ==
    DidWork =>
        /\ lastInv.start \in lastInv.frame_start..lastInv.frame_end
        /\ lastInv.end \in lastInv.frame_start..lastInv.frame_end

====
